---- MODULE Spec2Model ----
(***************************************************************************)
(* The DRMAA executor plugin of snakemake                                  *)
(* (src/snakemake_executor_plugin_drmaa/__init__.py): submission           *)
(* (run_job), the polling reconciler (check_active_jobs, an async          *)
(* generator), cancellation (cancel_jobs), session construction            *)
(* (__post_init__) and shutdown.                                           *)
(*                                                                         *)
(* The middleware (drmaa.Session) and the host (RemoteExecutor) are        *)
(* outside the source: every middleware call returns or raises             *)
(* nondeterministically, and the host is the caller the source's comments  *)
(* describe: it keeps the entries given to report_job_submission, hands    *)
(* them to check_active_jobs, consumes the whole generator and keeps what  *)
(* was yielded.  Attributes the source reads on objects of host classes    *)
(* (active_job.jobid at line 187) are taken to exist.  The shutdown of the *)
(* host's base class (line 219) is taken to return when no invocation of   *)
(* check_active_jobs is running, and shutdown to be called once.           *)
(***************************************************************************)
EXTENDS Integers, Sequences, FiniteSets, TLC

\* ---------------------------------------------------------------- bounds
NJobs == 2            \* tasks the host may hand to run_job
MaxQueries == 3       \* status queries in Spec, over all invocations
MaxEpisodeQueries == 5   \* status queries in SpecEpisodes
MaxLifecycleQueries == 1 \* status queries in SpecLifecycle, SpecShutdown
MaxExecutors == 2     \* Executor constructions in the process
MaxLiveQueries == 2   \* status queries in SpecLive

Jobs == 1..NJobs

\* SubmittedJobInfo.external_jobid before runJob has assigned it (line 111)
None == 0

\* ------------------------------------------------- middleware behaviours
\* job.format_wildcards (lines 101-104)
FormatOutcomes == {"ok", "AttributeError"}
\* the exceptions run_job catches (lines 123-127)
ClassifiedErrors ==
    {"DeniedByDrmException", "InternalException", "InvalidAttributeValueException"}
\* session.createJobTemplate / session.runJob (lines 114, 122): a result, one
\* of the caught exceptions, or any other exception
SubmitOutcomes == {"ok", "DeniedByDrmException", "InternalException",
                   "InvalidAttributeValueException", "Exception"}
\* drmaa.JobState values check_active_jobs tells apart (lines 173-194)
Suspended == {"USER_SUSPENDED", "SYSTEM_SUSPENDED"}
Terminal == {"DONE", "FAILED"}
JobStates == Terminal \cup Suspended \cup {"RUNNING"}
\* session.jobStatus (lines 162-168): a state, a timeout, any other exception
StatusOutcomes == JobStates \cup {"ExitTimeoutException", "Exception"}
\* session.control (lines 210-214)
ControlOutcomes == {"ok", "InvalidJobException", "InternalException", "Exception"}

VARIABLES
    drmaa_log_dir,    \* executor_settings.log_dir: "None" or "Path"
    drmaa_args,       \* executor_settings.args
    remote,           \* middleware: per task "live", or its permanent answer
    shutdown_pc,      \* position of shutdown: "running", "base" or "exited"
    exits,            \* session.exit calls
    shutdown_joined,  \* the base shutdown found a poll running and waited
    late_queries,     \* jobStatus calls made after session.exit
    jt,               \* per task: the attributes set on its job template
    calls,            \* per task: the calls run_job made for it
    acquired,         \* rate limiter acquisitions of this invocation
    sessions,         \* active middleware sessions of the process
    executors,        \* Executor objects constructed so far
    post_init_raised, \* an Executor construction raised
    run_result,       \* per task: how run_job ended ("pending" before)
    files,            \* jobscripts that exist on disk (by task)
    removed,          \* per task: successful os.remove calls on its jobscript
    submissions,      \* per task: report_job_submission calls
    successes,        \* per task: report_job_success calls
    errors,           \* per task: report_job_error calls
    templates,        \* per task: "none", "created" or "deleted"
    next_id,          \* the identifier the next successful runJob returns
    active_jobs,      \* host: entries to hand to the next poll
    suspended_msg,    \* self.suspended_msg
    warnings,         \* per task: suspension warnings logged
    observed,         \* per task: the job states jobStatus returned, in order
    pc,               \* position of the check_active_jobs generator
    poll_jobs,        \* its argument active_jobs
    poll_idx,         \* index of the entry the for loop is at
    yielded,          \* entries yielded by this invocation
    queried,          \* outcomes of this invocation's jobStatus calls
    events,           \* outcomes of this invocation: <<index, kind>> records
    polls,            \* status queries of the invocations started so far
    interrupted,      \* cancel_jobs has been called
    cancel_input,     \* its argument active_jobs
    control_log,      \* the session.control calls it issued, with results
    cancel_raised     \* cancel_jobs raised

vars == <<drmaa_log_dir, drmaa_args, remote, shutdown_pc, exits,
          shutdown_joined, late_queries,
          jt, calls, acquired, sessions, executors, post_init_raised, run_result,
          files, removed, submissions, successes, errors, templates, next_id,
          active_jobs, suspended_msg, warnings, observed, pc, poll_jobs,
          poll_idx, yielded, queried, events, polls, interrupted,
          cancel_input, control_log, cancel_raised>>

settingVars == <<drmaa_log_dir, drmaa_args, remote>>
shutdownVars == <<shutdown_pc, exits, shutdown_joined>>
envVars == <<settingVars, shutdownVars>>
sessionVars == <<sessions, executors, post_init_raised>>
submitVars == <<run_result, submissions, templates, next_id, jt, calls>>
pollVars == <<pc, poll_jobs, poll_idx, yielded, queried, events, polls,
              acquired, late_queries>>
cancelVars == <<interrupted, cancel_input, control_log, cancel_raised>>

\* SubmittedJobInfo(job, external_jobid, aux={"jobscript": ...}); the jobscript
\* of a task is named by the task
SubmittedJobInfo(j, id) == [job |-> j, external_jobid |-> id, aux |-> j]

\* executor_settings.args (lines 24-36): not given, or a template with a
\* placeholder
NoArgs == [given |-> FALSE, tokens |-> <<>>]
ArgsSettings == {NoArgs, [given |-> TRUE, tokens |-> <<"-q", "{rulename}">>]}

\* self.drmaa_args or "" (line 102)
OrEmpty(args) == IF args.given THEN args.tokens ELSE <<>>

\* job.rule of task j
RuleName(j) == ToString(j)

\* job.format_wildcards (line 102), when it succeeds: the placeholder stands
\* for the rule of the job
format_wildcards(tokens, j) ==
    [i \in 1..Len(tokens) |->
        IF tokens[i] = "{rulename}" THEN RuleName(j) ELSE tokens[i]]

\* self.get_jobscript(job) (line 98): the path of the jobscript of task j
get_jobscript(j) == <<"tmp", ToString(j)>>

\* os.path.basename (line 120)
basename(path) == path[Len(path)]

\* a job template no attribute of which has been set; an attribute that has
\* been set holds <<value>>
NoTemplate ==
    [remoteCommand |-> <<>>, nativeSpecification |-> <<>>, outputPath |-> <<>>,
     errorPath |-> <<>>, jobName |-> <<>>]

\* no call made yet for a task
NoCalls ==
    [format |-> "none", createJobTemplate |-> 0, runJob |-> 0,
     deleteJobTemplate |-> 0, rule |-> <<>>]

\* the state after construction, whatever the settings
InitAll ==
    /\ drmaa_log_dir \in {"None", "Path"}
    /\ drmaa_args \in ArgsSettings
    /\ remote = [j \in Jobs |-> "live"]
    /\ shutdown_pc = "running"
    /\ exits = 0
    /\ shutdown_joined = FALSE
    /\ late_queries = 0
    /\ jt = [j \in Jobs |-> NoTemplate]
    /\ calls = [j \in Jobs |-> NoCalls]
    /\ acquired = 0
    /\ sessions = 1
    /\ executors = 1
    /\ post_init_raised = FALSE
    /\ run_result = [j \in Jobs |-> "pending"]
    /\ files = {}
    /\ removed = [j \in Jobs |-> 0]
    /\ submissions = [j \in Jobs |-> 0]
    /\ successes = [j \in Jobs |-> 0]
    /\ errors = [j \in Jobs |-> 0]
    /\ templates = [j \in Jobs |-> "none"]
    /\ next_id = 1
    /\ active_jobs = <<>>
    /\ suspended_msg = {}
    /\ warnings = [j \in Jobs |-> 0]
    /\ observed = [j \in Jobs |-> <<>>]
    /\ pc = "idle"
    /\ poll_jobs = <<>>
    /\ poll_idx = 0
    /\ yielded = <<>>
    /\ queried = <<>>
    /\ events = <<>>
    /\ polls = 0
    /\ interrupted = FALSE
    /\ cancel_input = <<>>
    /\ control_log = <<>>
    /\ cancel_raised = FALSE

\* the state after construction with no args configured, the default of
\* ExecutorSettings (line 25)
Init ==
    /\ InitAll
    /\ drmaa_args = NoArgs

\* ------------------------------------------------------------ __post_init__
\* drmaa's Session.initialize (line 85): the process holds at most one
\* session, and initializing an active one raises
SessionInitialize(active) ==
    IF active > 0 THEN "AlreadyActiveSessionException" ELSE "ok"

\* PostInitCatches without the except clause
PostInitCatchesNothing(exc) == FALSE

\* except AlreadyActiveSessionException: pass (lines 86-87)
PostInitCatches(exc) == exc = "AlreadyActiveSessionException"

\* Executor.__post_init__ (lines 74-87), for a further Executor of the process
post_init ==
    /\ executors < MaxExecutors
    /\ executors' = executors + 1
    /\ LET exc == SessionInitialize(sessions)
       IN  /\ sessions' = IF exc = "ok" THEN sessions + 1 ELSE sessions
           /\ post_init_raised' =
                (post_init_raised \/ (exc # "ok" /\ ~PostInitCatches(exc)))
    /\ UNCHANGED <<envVars, submitVars, files, removed, successes, errors,
                   active_jobs, suspended_msg, warnings, observed, pollVars,
                   cancelVars>>

\* ------------------------------------------------------------------ run_job
\* What the try block of lines 113-122 ends with: "ok" or the exception
\* raised.  createJobTemplate comes first; with a log directory configured,
\* line 118 adds a str and a Path (ExecutorSettings.log_dir, line 37), which
\* raises TypeError; runJob comes last.
TryOutcome(cjt, rj) ==
    IF cjt # "ok" THEN cjt
    ELSE IF drmaa_log_dir = "Path" THEN "TypeError"
    ELSE rj

\* the except clause of lines 123-127
RunJobCatches(exc) == exc \in ClassifiedErrors

\* RaisesWorkflowError with the except clause of lines 103-104 never taken
RaisesWorkflowErrorNever(fw) == FALSE

\* lines 101-104: an AttributeError of format_wildcards becomes a WorkflowError
RaisesWorkflowError(fw) == fw = "AttributeError"

\* The attributes lines 115-120 set on the template of task j before the try
\* block ends: line 118 raises when a log directory is configured, so that
\* neither the paths nor the job name are set then
BuildTemplate(j) ==
    [remoteCommand |-> <<get_jobscript(j)>>,
     nativeSpecification |-> <<format_wildcards(OrEmpty(drmaa_args), j)>>,
     outputPath |-> <<>>,
     errorPath |-> <<>>,
     jobName |-> IF drmaa_log_dir = "Path" THEN <<>>
                 ELSE <<basename(get_jobscript(j))>>]

\* Executor.run_job (lines 89-138) for task j; fw, cjt and rj are the outcomes
\* of job.format_wildcards, session.createJobTemplate and session.runJob
run_job(j, fw, cjt, rj) ==
    /\ ~interrupted
    /\ shutdown_pc = "running"
    /\ run_result[j] = "pending"
    /\ files' = files \cup {j}                              \* line 99
    /\ IF RaisesWorkflowError(fw)
       THEN \* lines 103-104: raise WorkflowError(str(e), rule=job.rule)
            /\ run_result' = [run_result EXCEPT ![j] = "WorkflowError"]
            /\ calls' = [calls EXCEPT ![j].format = fw,
                                      ![j].rule = <<RuleName(j)>>]
            /\ UNCHANGED <<submissions, templates, next_id, errors,
                           active_jobs, jt>>
       ELSE LET exc == TryOutcome(cjt, rj)
                bound == cjt = "ok"           \* jt was assigned at line 114
                id == IF exc = "ok" THEN next_id ELSE None
                returns == exc = "ok" \/ RunJobCatches(exc)
            IN  /\ jt' = IF bound THEN [jt EXCEPT ![j] = BuildTemplate(j)]
                         ELSE jt
                /\ calls' = [calls EXCEPT
                      ![j].format = fw,
                      ![j].createJobTemplate = 1,
                      ![j].runJob =
                          IF bound /\ drmaa_log_dir # "Path" THEN 1 ELSE 0,
                      ![j].deleteJobTemplate =
                          IF bound /\ returns THEN 1 ELSE 0]
                /\ IF returns
                   THEN \* lines 128-138: the except clause falls through to
                        \* report_job_submission and deleteJobTemplate(jt)
                        /\ errors' = IF exc = "ok" THEN errors
                                     ELSE [errors EXCEPT ![j] = @ + 1]
                        /\ submissions' = [submissions EXCEPT ![j] = @ + 1]
                        /\ active_jobs' =
                             Append(active_jobs, SubmittedJobInfo(j, id))
                        /\ next_id' = IF exc = "ok" THEN next_id + 1
                                      ELSE next_id
                        /\ templates' = IF bound
                                        THEN [templates EXCEPT ![j] = "deleted"]
                                        ELSE templates
                        /\ run_result' = [run_result EXCEPT ![j] =
                               IF ~bound THEN "UnboundLocalError"
                               ELSE IF exc = "ok" THEN "submitted"
                               ELSE "error_reported"]
                   ELSE \* any other exception leaves run_job at once
                        /\ run_result' = [run_result EXCEPT ![j] = exc]
                        /\ templates' = IF bound
                                        THEN [templates EXCEPT ![j] = "created"]
                                        ELSE templates
                        /\ UNCHANGED <<submissions, next_id, errors,
                                       active_jobs>>
    /\ UNCHANGED <<envVars, sessionVars, removed, successes,
                   suspended_msg, warnings, observed, pollVars, cancelVars>>

\* -------------------------------------------------------- check_active_jobs
\* Outcome with the callback of the FAILED branch left out
OutcomeFailedUnreported(status) ==
    CASE status = "ExitTimeoutException" ->
            [remove |-> FALSE, report |-> "none", yield |-> TRUE]
      [] status = "Exception" ->
            [remove |-> TRUE, report |-> "error", yield |-> FALSE]
      [] status = "DONE" ->
            [remove |-> TRUE, report |-> "success", yield |-> FALSE]
      [] status = "FAILED" ->
            [remove |-> TRUE, report |-> "none", yield |-> FALSE]
      [] OTHER ->
            [remove |-> FALSE, report |-> "none", yield |-> TRUE]

\* Outcome with a query error taken for "still running"
OutcomeErrorRetried(status) ==
    CASE status \in {"ExitTimeoutException", "Exception"} ->
            [remove |-> FALSE, report |-> "none", yield |-> TRUE]
      [] status = "DONE" ->
            [remove |-> TRUE, report |-> "success", yield |-> FALSE]
      [] status = "FAILED" ->
            [remove |-> TRUE, report |-> "error", yield |-> FALSE]
      [] OTHER ->
            [remove |-> FALSE, report |-> "none", yield |-> TRUE]

\* Outcome with the jobscript removed on a timeout as well
OutcomeTimeoutCleans(status) ==
    CASE status = "ExitTimeoutException" ->
            [remove |-> TRUE, report |-> "none", yield |-> TRUE]
      [] status = "Exception" ->
            [remove |-> TRUE, report |-> "error", yield |-> FALSE]
      [] status = "DONE" ->
            [remove |-> TRUE, report |-> "success", yield |-> FALSE]
      [] status = "FAILED" ->
            [remove |-> TRUE, report |-> "error", yield |-> FALSE]
      [] OTHER ->
            [remove |-> FALSE, report |-> "none", yield |-> TRUE]

\* Outcome with a DONE job taken for "still running"
OutcomeDoneYielded(status) ==
    CASE status = "ExitTimeoutException" ->
            [remove |-> FALSE, report |-> "none", yield |-> TRUE]
      [] status = "Exception" ->
            [remove |-> TRUE, report |-> "error", yield |-> FALSE]
      [] status = "FAILED" ->
            [remove |-> TRUE, report |-> "error", yield |-> FALSE]
      [] OTHER ->
            [remove |-> FALSE, report |-> "none", yield |-> TRUE]

\* What the body of the for loop does with the outcome of session.jobStatus
\* (lines 162-181): whether it removes the jobscript, which callback it makes
\* and whether it yields the entry
Outcome(status) ==
    CASE status = "ExitTimeoutException" ->           \* lines 164-167
            [remove |-> FALSE, report |-> "none", yield |-> TRUE]
      [] status = "Exception" ->                      \* lines 168-172
            [remove |-> TRUE, report |-> "error", yield |-> FALSE]
      [] status = "DONE" ->                           \* lines 173-175
            [remove |-> TRUE, report |-> "success", yield |-> FALSE]
      [] status = "FAILED" ->                         \* lines 176-178
            [remove |-> TRUE, report |-> "error", yield |-> FALSE]
      [] OTHER ->                                     \* lines 179-181
            [remove |-> FALSE, report |-> "none", yield |-> TRUE]

\* YieldEntry with the entry put before those already yielded
YieldEntryFirst(out, entry) == <<entry>> \o out

\* yield active_job (lines 166, 181): the entry itself, after those before it
YieldEntry(out, entry) == Append(out, entry)

\* NextPc with the gate taken once for the whole loop, not once per entry
NextPcGateOnce(idx, list) == IF idx < Len(list) THEN "query" ELSE "done"

\* NextPc with the loop ending one entry early
NextPcSkipsLast(idx, list) == IF idx + 1 < Len(list) THEN "gate" ELSE "done"

\* the next position of the for loop of line 159
NextPc(idx, list) == IF idx < Len(list) THEN "gate" ELSE "done"

\* MemoAfter without the removal of lines 197-201
MemoAfterKeeps(memo, j, s) ==
    IF s \in Suspended THEN memo \cup {j} ELSE memo

\* handle_suspended and the else branch of lines 183-201: the memo after
\* status s has been handled for job handle j
MemoAfter(memo, j, s) ==
    IF s \in Suspended THEN memo \cup {j} ELSE memo \ {j}

\* line 184: handle_suspended logs only when the handle is not in the memo
LogsWarning(memo, j, s) == s \in Suspended /\ j \notin memo

\* The host calls check_active_jobs with the entries it holds (line 140-142);
\* the generator runs to the first acquisition of the rate limiter.  A call
\* with an empty list does nothing, and the host calls no more once it has
\* been interrupted or shut down.  cost is what the call takes of limit, the
\* bound on the status queries; jobs are the tasks whose entries are polled.
poll_start(limit, jobs, cost) ==
    /\ pc = "idle"
    /\ ~interrupted
    /\ shutdown_pc = "running"
    /\ active_jobs # <<>>
    /\ polls + cost <= limit
    /\ \A i \in 1..Len(active_jobs) : active_jobs[i].job \in jobs
    /\ polls' = polls + cost
    /\ acquired' = 0
    /\ UNCHANGED late_queries
    /\ poll_jobs' = active_jobs
    /\ active_jobs' = <<>>
    /\ poll_idx' = 1
    /\ pc' = "gate"
    /\ yielded' = <<>>
    /\ queried' = <<>>
    /\ events' = <<>>
    /\ UNCHANGED <<envVars, sessionVars, submitVars, files, removed,
                   successes, errors, suspended_msg, warnings, observed,
                   cancelVars>>

\* a call of check_active_jobs in which every status query counts
check_active_jobs(limit, jobs) == poll_start(limit, jobs, Len(active_jobs))

\* async with self.status_rate_limiter (line 161): the rate limiter lets the
\* generator in
poll_acquire ==
    /\ pc = "gate"
    /\ pc' = "query"
    /\ acquired' = acquired + 1
    /\ UNCHANGED <<envVars, sessionVars, submitVars, files, removed,
                   successes, errors, active_jobs, suspended_msg, warnings,
                   observed, poll_jobs, poll_idx, yielded, queried, events,
                   polls, late_queries, cancelVars>>

\* QueryErrorCaught with no except clause for the query errors
QueryErrorCaughtNever(status) == FALSE

\* except (drmaa.InternalException, Exception) (line 168): every exception of
\* the status query other than the timeout is caught
QueryErrorCaught(status) == status = "Exception"

\* One pass of the loop body from the status query (line 163) to the next
\* suspension: by the outcome of the query os.remove, the callback and the
\* yield.  os.remove of a missing jobscript raises FileNotFoundError, which
\* ends the generator, and so would a query error that is not caught.
poll_body(status) ==
    /\ pc = "query"
    /\ late_queries' = IF shutdown_pc = "exited" THEN late_queries + 1
                       ELSE late_queries
    /\ UNCHANGED acquired
    /\ LET entry == poll_jobs[poll_idx]
           j == entry.job
           o == Outcome(status)
       IN  /\ queried' = Append(queried, status)
           /\ IF \/ o.remove /\ entry.aux \notin files
                 \/ status = "Exception" /\ ~QueryErrorCaught(status)
              THEN /\ pc' = "raised"
                   /\ UNCHANGED <<files, removed, successes, errors, events,
                                  yielded, poll_idx>>
              ELSE /\ files' = IF o.remove THEN files \ {entry.aux} ELSE files
                   /\ removed' = IF o.remove
                                 THEN [removed EXCEPT ![j] = @ + 1]
                                 ELSE removed
                   /\ successes' = IF o.report = "success"
                                   THEN [successes EXCEPT ![j] = @ + 1]
                                   ELSE successes
                   /\ errors' = IF o.report = "error"
                                THEN [errors EXCEPT ![j] = @ + 1]
                                ELSE errors
                   /\ events' = events
                        \o (IF o.report # "none"
                            THEN <<[idx |-> poll_idx, kind |-> o.report]>>
                            ELSE <<>>)
                        \o (IF o.yield
                            THEN <<[idx |-> poll_idx, kind |-> "yield"]>>
                            ELSE <<>>)
                   /\ yielded' = IF o.yield THEN YieldEntry(yielded, entry)
                                 ELSE yielded
                   /\ IF o.yield
                      THEN /\ pc' = IF status = "ExitTimeoutException"
                                    THEN "yield_timeout" ELSE "yield_active"
                           /\ UNCHANGED poll_idx
                      ELSE /\ pc' = NextPc(poll_idx, poll_jobs)
                           /\ poll_idx' = poll_idx + 1
    /\ UNCHANGED <<envVars, sessionVars, submitVars, active_jobs,
                   suspended_msg, warnings, poll_jobs, polls, cancelVars>>

\* poll_body, the history of observed job states left alone
poll_query(status) ==
    /\ poll_body(status)
    /\ UNCHANGED observed

\* poll_body, keeping the history of the job states jobStatus returned
poll_query_observed(status) ==
    /\ poll_body(status)
    /\ observed' = IF status \in JobStates
                   THEN [observed EXCEPT ![poll_jobs[poll_idx].job] =
                            Append(@, status)]
                   ELSE observed

\* the answer the middleware gives for the entry the loop is at: any, until
\* the job has its permanent answer
StatusAllowed(status) ==
    LET j == poll_jobs[poll_idx].job
    IN  remote[j] = "live" \/ status = remote[j]

\* poll_query against a middleware whose answers become permanent
poll_query_settled(status) ==
    /\ pc = "query"
    /\ StatusAllowed(status)
    /\ poll_query(status)

\* The job of a task that was submitted ends: from here on the middleware
\* answers every status query for it with s
middleware_settle(j, s) ==
    /\ run_result[j] = "submitted"
    /\ remote[j] = "live"
    /\ remote' = [remote EXCEPT ![j] = s]
    /\ UNCHANGED <<drmaa_log_dir, drmaa_args, shutdownVars, sessionVars,
                   submitVars, files, removed, successes, errors, active_jobs,
                   suspended_msg, warnings, observed, pollVars, cancelVars>>

\* The host asks for the next entry: the generator resumes after the yield of
\* line 166 (continue) or of line 181 (lines 183-201, then the next pass)
poll_resume ==
    /\ pc \in {"yield_timeout", "yield_active"}
    /\ LET j == poll_jobs[poll_idx].job
           s == queried[poll_idx]
       IN  IF pc = "yield_active"
           THEN /\ warnings' = IF LogsWarning(suspended_msg, j, s)
                               THEN [warnings EXCEPT ![j] = @ + 1]
                               ELSE warnings
                /\ suspended_msg' = MemoAfter(suspended_msg, j, s)
           ELSE UNCHANGED <<warnings, suspended_msg>>
    /\ pc' = NextPc(poll_idx, poll_jobs)
    /\ poll_idx' = poll_idx + 1
    /\ UNCHANGED <<envVars, sessionVars, submitVars, files, removed,
                   successes, errors, active_jobs, observed, poll_jobs,
                   yielded, queried, events, polls, acquired, late_queries,
                   cancelVars>>

\* The generator is exhausted: the host keeps the yielded entries for the
\* next invocation
poll_return ==
    /\ pc = "done"
    /\ active_jobs' = active_jobs \o yielded
    /\ pc' = "idle"
    /\ poll_jobs' = <<>>
    /\ poll_idx' = 0
    /\ yielded' = <<>>
    /\ queried' = <<>>
    /\ events' = <<>>
    /\ UNCHANGED <<envVars, sessionVars, submitVars, files, removed,
                   successes, errors, suspended_msg, warnings, observed, polls,
                   acquired, late_queries, cancelVars>>

\* -------------------------------------------------------------- cancel_jobs
\* CancelCatches with InternalException left out of the except clause
CancelCatchesInvalidOnly(exc) == exc = "InvalidJobException"

\* except (InvalidJobException, InternalException): pass (lines 214-216)
CancelCatches(exc) == exc \in {"InvalidJobException", "InternalException"}

\* The for loop of lines 209-216 from entry i on: the control calls issued,
\* each with its result, up to the first exception that is not caught
RECURSIVE cancel_loop(_, _, _)
cancel_loop(list, outs, i) ==
    IF i > Len(list) THEN <<>>
    ELSE LET call == [jobid |-> list[i].external_jobid,
                      action |-> "TERMINATE", result |-> outs[i]]
         IN  IF outs[i] = "ok" \/ CancelCatches(outs[i])
             THEN <<call>> \o cancel_loop(list, outs, i + 1)
             ELSE <<call>>

\* cancel_jobs removing the jobscripts of the entries it cancels
cancel_jobs_removing(outs) ==
    /\ ~interrupted
    /\ active_jobs # <<>>
    /\ interrupted' = TRUE
    /\ cancel_input' = active_jobs
    /\ control_log' = cancel_loop(active_jobs, outs, 1)
    /\ cancel_raised' =
         LET last == control_log'[Len(control_log')]
         IN  last.result # "ok" /\ ~CancelCatches(last.result)
    /\ files' = files \ {active_jobs[k].aux : k \in 1..Len(control_log')}
    /\ UNCHANGED <<envVars, sessionVars, submitVars, removed,
                   successes, errors, active_jobs, suspended_msg, warnings,
                   observed, pollVars>>

\* Executor.cancel_jobs (lines 203-216) on the entries the host holds; outs
\* gives the outcome of session.control for each entry
cancel_jobs(outs) ==
    /\ ~interrupted
    /\ active_jobs # <<>>
    /\ interrupted' = TRUE
    /\ cancel_input' = active_jobs
    /\ control_log' = cancel_loop(active_jobs, outs, 1)
    /\ cancel_raised' =
         LET last == control_log'[Len(control_log')]
         IN  last.result # "ok" /\ ~CancelCatches(last.result)
    /\ UNCHANGED <<envVars, sessionVars, submitVars, files, removed,
                   successes, errors, active_jobs, suspended_msg, warnings,
                   observed, pollVars>>

\* ----------------------------------------------------------------- shutdown
\* ExitAllowed with session.exit() called before super().shutdown()
ExitBeforeBase(base_returned) == TRUE

\* line 220 is reached when the call of line 219 has returned
ExitAllowed(base_returned) == base_returned

\* super().shutdown() of the host's base class returns when the polling of
\* the executor has stopped: no invocation of check_active_jobs is running
BaseShutdownReturned == pc = "idle"

\* Executor.shutdown is called, once: super().shutdown() (line 219) starts;
\* from here on the host starts no poll and submits nothing
shutdown_begin ==
    /\ shutdown_pc = "running"
    /\ shutdown_pc' = "base"
    /\ shutdown_joined' = ~BaseShutdownReturned
    /\ UNCHANGED <<settingVars, exits, sessionVars, submitVars, files,
                   removed, successes, errors, active_jobs, suspended_msg,
                   warnings, observed, pollVars, cancelVars>>

\* self.session.exit() (line 220)
shutdown_exit ==
    /\ shutdown_pc = "base"
    /\ ExitAllowed(BaseShutdownReturned)
    /\ shutdown_pc' = "exited"
    /\ exits' = exits + 1
    /\ sessions' = 0
    /\ UNCHANGED <<settingVars, shutdown_joined, executors, post_init_raised,
                   submitVars, files, removed, successes, errors, active_jobs,
                   suspended_msg, warnings, observed, pollVars, cancelVars>>

\* ------------------------------------------------------------ specifications
\* The outcomes of format_wildcards, createJobTemplate and runJob in one call
\* of run_job: a call that is not reached, because an earlier one raised, is
\* written "ok"
SubmitInputs ==
    {in \in FormatOutcomes \X SubmitOutcomes \X SubmitOutcomes :
        /\ in[1] # "ok" => in[2] = "ok"
        /\ in[2] # "ok" \/ in[1] # "ok" => in[3] = "ok"}

\* Submission and polling of NJobs tasks
Next ==
    \/ \E j \in Jobs, in \in SubmitInputs : run_job(j, in[1], in[2], in[3])
    \/ check_active_jobs(MaxQueries, Jobs)
    \/ poll_acquire
    \/ \E status \in StatusOutcomes : poll_query(status)
    \/ poll_resume
    \/ poll_return

Spec == Init /\ [][Next]_vars

\* One task polled over many invocations, with the history of its job states
NextEpisodes ==
    \/ \E in \in SubmitInputs : run_job(1, in[1], in[2], in[3])
    \/ check_active_jobs(MaxEpisodeQueries, {1})
    \/ poll_acquire
    \/ \E status \in StatusOutcomes : poll_query_observed(status)
    \/ poll_resume
    \/ poll_return

SpecEpisodes == Init /\ [][NextEpisodes]_vars

\* Construction of further executors, submission, one poll and the interrupt
NextLifecycle ==
    \/ post_init
    \/ \E j \in Jobs, in \in SubmitInputs : run_job(j, in[1], in[2], in[3])
    \/ check_active_jobs(MaxLifecycleQueries, Jobs)
    \/ poll_acquire
    \/ \E status \in StatusOutcomes : poll_query(status)
    \/ poll_resume
    \/ poll_return
    \/ \E outs \in [1..Len(active_jobs) -> ControlOutcomes] : cancel_jobs(outs)

SpecLifecycle == Init /\ [][NextLifecycle]_vars

\* Submission of NJobs tasks under any settings
NextSubmit ==
    \E j \in Jobs, in \in SubmitInputs : run_job(j, in[1], in[2], in[3])

SpecSubmit == InitAll /\ [][NextSubmit]_vars

\* Submission, one poll and the shutdown of the executor
NextShutdown ==
    \/ \E j \in Jobs, in \in SubmitInputs : run_job(j, in[1], in[2], in[3])
    \/ check_active_jobs(MaxLifecycleQueries, Jobs)
    \/ poll_acquire
    \/ \E status \in StatusOutcomes : poll_query(status)
    \/ poll_resume
    \/ poll_return
    \/ shutdown_begin
    \/ shutdown_exit

SpecShutdown == Init /\ [][NextShutdown]_vars

\* Submission and polling where the rate limiter lets every waiting query in,
\* every status query returns or raises, and the host consumes the generator
NextLive ==
    \/ \E j \in Jobs, in \in SubmitInputs : run_job(j, in[1], in[2], in[3])
    \/ check_active_jobs(MaxLiveQueries, Jobs)
    \/ poll_acquire
    \/ \E status \in StatusOutcomes : poll_query(status)
    \/ poll_resume
    \/ poll_return

SpecLive ==
    /\ Init
    /\ [][NextLive]_vars
    /\ WF_vars(poll_acquire)
    /\ WF_vars(\E status \in StatusOutcomes : poll_query(status))
    /\ WF_vars(poll_resume)

\* the outcomes of a status query other than the two suspensions
UnsuspendedOutcomes == StatusOutcomes \ Suspended

\* the calls of run_job that reach runJob, whatever runJob does: the tasks of
\* the other calls are never handed to check_active_jobs
TrackedInputs == {in \in SubmitInputs : in[1] = "ok" /\ in[2] = "ok"}

\* Submission and polling without end of jobs that are never suspended and
\* may end: the host keeps calling check_active_jobs with what the last call
\* yielded, the rate limiter lets every waiting query in, every status query
\* returns or raises
NextEventual ==
    \/ \E j \in Jobs, in \in TrackedInputs : run_job(j, in[1], in[2], in[3])
    \/ \E j \in Jobs, s \in Terminal : middleware_settle(j, s)
    \/ poll_start(MaxQueries, Jobs, 0)
    \/ poll_acquire
    \/ \E status \in UnsuspendedOutcomes : poll_query_settled(status)
    \/ poll_resume
    \/ poll_return

SpecEventual ==
    /\ Init
    /\ [][NextEventual]_vars
    /\ WF_vars(poll_start(MaxQueries, Jobs, 0))
    /\ WF_vars(poll_acquire)
    /\ WF_vars(\E status \in UnsuspendedOutcomes : poll_query_settled(status))
    /\ WF_vars(poll_resume)
    /\ WF_vars(poll_return)

\* ------------------------------------------------------------------- claims
\* the events of this invocation for the entry at index i
EventsOf(i) == {k \in 1..Len(events) : events[k].idx = i}

\* the entries of a list, as a set
Range(list) == {list[k] : k \in 1..Len(list)}

\* the entries the host will hand to a poll again: those it holds, those the
\* running invocation has yielded and those it has not reached yet
StillTracked ==
    Range(active_jobs) \cup Range(yielded)
        \cup {poll_jobs[k] : k \in (Len(queried) + 1)..Len(poll_jobs)}

\* the query timed out or returned a state other than DONE and FAILED
StillRunning(status) ==
    status = "ExitTimeoutException" \/ status \in (JobStates \ Terminal)

\* the entries among the first n supplied whose query said "still running",
\* in the order supplied
RECURSIVE ExpectedYield(_)
ExpectedYield(n) ==
    IF n = 0 THEN <<>>
    ELSE IF StillRunning(queried[n])
         THEN Append(ExpectedYield(n - 1), poll_jobs[n])
         ELSE ExpectedYield(n - 1)

\* C1: in an invocation of check_active_jobs every entry that has been queried
\* has exactly one outcome (yielded, report_job_success or report_job_error),
\* exactly once; when the invocation ends every supplied entry has been
\* queried, and every entry that was not yielded has had its callback.
C1_OneOutcomePerEntry ==
    /\ \A i \in 1..Len(queried) :
          /\ Cardinality(EventsOf(i)) = 1
          /\ \A k \in EventsOf(i) :
                /\ events[k].kind \in {"yield", "success", "error"}
                /\ events[k].kind = "yield" <=> poll_jobs[i] \in Range(yielded)
    /\ Len(yielded) = Cardinality({k \in 1..Len(events) : events[k].kind = "yield"})
    /\ pc = "done" => Len(queried) = Len(poll_jobs)
    /\ pc \in {"gate", "query", "yield_timeout", "yield_active", "done"}
          => Len(queried) \in {poll_idx - 1, poll_idx}

\* an invocation over two entries has ended, one entry yielded and the other
\* reported as failed
C1_Witness ==
    /\ pc = "done"
    /\ Len(poll_jobs) = 2
    /\ \E k \in 1..Len(events) : events[k].kind = "yield"
    /\ \E k \in 1..Len(events) : events[k].kind = "error"

\* C2 (as claimed): once report_job_success or report_job_error has been
\* called for an entry, its jobscript has been deleted exactly once and the
\* entry is neither yielded nor handed to a later poll.
C2_TerminalIsDroppedAndCleaned ==
    \A j \in Jobs :
        successes[j] + errors[j] > 0 =>
            /\ removed[j] = 1
            /\ j \notin files
            /\ \A e \in StillTracked : e.job # j

\* C3 (as claimed): every task receives at most one terminal callback, those
\* of run_job and of check_active_jobs counted together.
C3_AtMostOneTerminalCallback ==
    \A j \in Jobs : successes[j] + errors[j] <= 1

\* C4 (as claimed): run_job calls report_job_submission for a task if and only
\* if runJob returned an identifier, which the reported entry carries; when
\* runJob raises one of the caught exceptions, report_job_error is called once
\* by run_job, the task is not reported as submitted and it never enters the
\* entries handed to poll.
C4_SubmissionIffIdentifier ==
    \A j \in Jobs :
        /\ submissions[j] > 0 <=> run_result[j] = "submitted"
        /\ \A e \in StillTracked : e.job = j => e.external_jobid # None
        /\ run_result[j] = "error_reported" =>
              /\ errors[j] >= 1
              /\ submissions[j] = 0
              /\ \A e \in StillTracked : e.job # j

\* C5: the entries an invocation has yielded are exactly those, among the
\* entries queried so far and in the order supplied, whose query timed out or
\* returned a state other than DONE and FAILED, each as it was supplied.
C5_YieldedIsStillRunningSubsequence ==
    /\ yielded = ExpectedYield(Len(queried))
    /\ pc = "done" => Len(queried) = Len(poll_jobs)

\* an invocation has ended having yielded two entries, the first after a
\* timeout and the second suspended
C5_Witness ==
    /\ pc = "done"
    /\ Len(yielded) = 2
    /\ yielded[1] # yielded[2]
    /\ queried[1] = "ExitTimeoutException"
    /\ queried[2] \in Suspended

\* the job states that have been handled for job j: all those observed, but
\* the last one while the generator is suspended at the yield of line 181
Handled(j) ==
    IF pc = "yield_active" /\ poll_jobs[poll_idx].job = j
    THEN SubSeq(observed[j], 1, Len(observed[j]) - 1)
    ELSE observed[j]

\* the contiguous suspended episodes of a sequence of job states
Episodes(seq) ==
    Cardinality({i \in 1..Len(seq) :
        seq[i] \in Suspended /\ (i = 1 \/ seq[i - 1] \notin Suspended)})

C7_QueryErrorFailsClosed ==
    \A i \in 1..Len(queried) :
        /\ queried[i] = "Exception" =>
              /\ poll_jobs[i].aux \notin files
              /\ Cardinality(EventsOf(i)) = 1
              /\ \A k \in EventsOf(i) : events[k].kind = "error"
              /\ poll_jobs[i] \notin Range(yielded)
        /\ queried[i] = "ExitTimeoutException" =>
              /\ \A k \in EventsOf(i) : events[k].kind = "yield"
              /\ poll_jobs[i] \in Range(yielded)

\* an invocation has ended in which one query raised and another timed out
C7_Witness ==
    /\ pc = "done"
    /\ \E i \in 1..Len(queried) : queried[i] = "Exception"
    /\ \E i \in 1..Len(queried) : queried[i] = "ExitTimeoutException"

\* the jobscript of every entry still tracked exists, and so does that of
\* every entry whose query said "still running"
C8_ActiveJobscriptsExist ==
    /\ \A e \in StillTracked : e.aux \in files
    /\ \A i \in 1..Len(queried) :
          StillRunning(queried[i]) =>
              poll_jobs[i].aux \in files /\ poll_jobs[i] \in Range(yielded)

\* a status query that times out, and the resumption after its yield, change
\* neither the files, the callbacks made nor the suspension memo
C8_TimeoutChangesNothing ==
    (\/ /\ Len(queried') = Len(queried) + 1
        /\ queried'[Len(queried')] = "ExitTimeoutException"
     \/ /\ pc = "yield_timeout"
        /\ pc' # pc)
    => UNCHANGED <<files, removed, successes, errors, submissions,
                   suspended_msg, warnings, active_jobs, poll_jobs>>

\* C8: a poll never deletes the jobscript of an entry whose query timed out or
\* returned a non-terminal state, a timeout changes no state, and the
\* jobscript of every entry still in the active set exists.
C8_NoCleanupWhileActive ==
    []C8_ActiveJobscriptsExist /\ [][C8_TimeoutChangesNothing]_vars

\* an invocation has ended with one entry timed out and one suspended, both
\* jobscripts on disk
C8_Witness ==
    /\ pc = "done"
    /\ \E i \in 1..Len(queried) : queried[i] = "ExitTimeoutException"
    /\ \E i \in 1..Len(queried) : queried[i] \in Suspended
    /\ \A i \in 1..Len(poll_jobs) : poll_jobs[i].aux \in files

\* C9: when every control call of cancel_jobs succeeds or raises
\* InvalidJobException or InternalException, cancel_jobs raises nothing and
\* has issued one TERMINATE request per supplied entry, in order.
C9_CancelAttemptsEveryEntry ==
    (/\ interrupted
     /\ \A k \in 1..Len(control_log) :
           control_log[k].result \in
               {"ok", "InvalidJobException", "InternalException"})
    => /\ ~cancel_raised
       /\ Len(control_log) = Len(cancel_input)
       /\ \A k \in 1..Len(control_log) :
             /\ control_log[k].jobid = cancel_input[k].external_jobid
             /\ control_log[k].action = "TERMINATE"

\* cancel_jobs was given two entries; the first control call raised
\* InvalidJobException and the second was made and succeeded
C9_Witness ==
    /\ interrupted
    /\ Len(cancel_input) = 2
    /\ Len(control_log) = 2
    /\ control_log[1].result = "InvalidJobException"
    /\ control_log[2].result = "ok"
    /\ ~cancel_raised

\* C10: constructing an Executor while the middleware session is active does
\* not raise and leaves the process with one active session.
C10_OpenIsIdempotent ==
    /\ sessions <= 1
    /\ ~post_init_raised

\* a second Executor has been constructed
C10_Witness ==
    /\ executors = 2
    /\ sessions = 1

\* the value line 118 and line 119 are to give the paths of the template
LogDirTarget == <<":", drmaa_log_dir>>

\* C11 (as claimed): a job template built by run_job has the interpolated args
\* as native specification and the base name of the jobscript as job name;
\* its output and error paths are the log directory when one is configured,
\* and unset when none is.
C11_TemplateAsConfigured ==
    \A j \in Jobs :
        (templates[j] # "none" /\ run_result[j] # "pending") =>
            /\ jt[j].nativeSpecification =
                  <<format_wildcards(OrEmpty(drmaa_args), j)>>
            /\ jt[j].jobName = <<basename(get_jobscript(j))>>
            /\ drmaa_log_dir # "None" =>
                  /\ jt[j].outputPath = <<LogDirTarget>>
                  /\ jt[j].errorPath = <<LogDirTarget>>
            /\ drmaa_log_dir = "None" =>
                  /\ jt[j].outputPath = <<>>
                  /\ jt[j].errorPath = <<>>

\* a task whose format_wildcards raised ended with a WorkflowError naming its
\* rule, with no template, no runJob, no callback and no entry
C12_FailedTaskLeavesNothing ==
    \A j \in Jobs :
        calls[j].format = "AttributeError" =>
            /\ run_result[j] = "WorkflowError"
            /\ calls[j].rule = <<RuleName(j)>>
            /\ calls[j].createJobTemplate = 0
            /\ calls[j].runJob = 0
            /\ templates[j] = "none"
            /\ jt[j] = NoTemplate
            /\ submissions[j] = 0
            /\ errors[j] = 0
            /\ \A e \in StillTracked : e.job # j

\* the call of run_job in which format_wildcards raises changes neither the
\* session, the memo, the entries tracked nor the next identifier
C12_FailedCallChangesNothing ==
    (\E j \in Jobs :
        calls[j].format = "none" /\ calls'[j].format = "AttributeError")
    => UNCHANGED <<sessions, suspended_msg, active_jobs, next_id, submissions,
                   successes, errors, templates, jt, pollVars>>

\* C12: when format_wildcards raises AttributeError, run_job raises a
\* WorkflowError naming the rule, creates no template, issues no runJob and
\* makes no callback, and leaves the executor state as it was, so that a
\* later run_job is not affected.
C12_InterpolationFailureIsTaskScoped ==
    []C12_FailedTaskLeavesNothing /\ [][C12_FailedCallChangesNothing]_vars

\* the interpolation failed for task 1, and task 2 was submitted after it
\* with the first identifier
C12_Witness ==
    /\ calls[1].format = "AttributeError"
    /\ run_result[1] = "WorkflowError"
    /\ run_result[2] = "submitted"
    /\ active_jobs = <<SubmittedJobInfo(2, 1)>>

\* C15 (as claimed): when run_job has ended, a template that was created has
\* been released by one deleteJobTemplate call, whatever the outcome of the
\* submission, and deleteJobTemplate was not called when none was created.
C15_TemplateAlwaysReleased ==
    \A j \in Jobs :
        run_result[j] # "pending" =>
            /\ templates[j] # "none" =>
                  templates[j] = "deleted" /\ calls[j].deleteJobTemplate = 1
            /\ templates[j] = "none" => calls[j].deleteJobTemplate = 0

\* C13 (as claimed): after a completed poll invocation a job is in the
\* suspension memo if and only if the most recently observed status of the
\* job was USER_SUSPENDED or SYSTEM_SUSPENDED; DONE and FAILED remove it as
\* any other status that is not a suspension does.
C13_MemoIffLastObservedSuspended ==
    pc \in {"idle", "done"} =>
        \A j \in Jobs :
            j \in suspended_msg <=>
                /\ observed[j] # <<>>
                /\ observed[j][Len(observed[j])] \in Suspended

\* C14: in one poll invocation a status query that raises, or that returns
\* FAILED, gives the entry its error callback and does not end the
\* invocation: every entry after it in the list is queried and gets its own
\* one outcome before the invocation ends.
C14_TaskErrorDoesNotAbortOthers ==
    /\ pc # "raised"
    /\ \A i \in 1..Len(queried) :
          queried[i] \in {"Exception", "FAILED"} =>
              /\ \A k \in EventsOf(i) : events[k].kind = "error"
              /\ Len(poll_jobs) > i => pc # "done" \/ Len(queried) > i
              /\ pc = "done" =>
                    \A n \in (i + 1)..Len(poll_jobs) :
                        /\ n <= Len(queried)
                        /\ Cardinality(EventsOf(n)) = 1

\* an invocation has ended in which the query of the first entry raised and
\* the second entry was found DONE and reported
C14_Witness ==
    /\ pc = "done"
    /\ queried = <<"Exception", "DONE">>
    /\ \E k \in EventsOf(2) : events[k].kind = "success"

\* the generator has handed control to its caller and waits to be resumed
GeneratorSuspended == pc \in {"gate", "yield_timeout", "yield_active"}

\* the invocation of check_active_jobs has not been consumed to its end
PollInFlight ==
    pc \in {"gate", "query", "yield_timeout", "yield_active", "done"}

\* every status query of the invocation was made with the gate acquired
\* for it: as many acquisitions as queries, one more while the query of the
\* current entry is about to be made
OneAcquisitionPerQuery ==
    PollInFlight =>
        acquired = Len(queried) + (IF pc = "query" THEN 1 ELSE 0)

\* C16 (as claimed): every status query is made after one acquisition of
\* the gate, and the loop suspends nowhere but at the gate: nothing suspends
\* between the status query of an entry and the end of its processing.
C16_GateIsTheOnlySuspension ==
    /\ OneAcquisitionPerQuery
    /\ GeneratorSuspended => pc = "gate"

\* os.remove and the callback of an entry are made in the step of its status
\* query; the warning and the memo change in no step but the resumption
\* after the yield of line 181
C16_StepsOfAnEntry ==
    /\ (Len(queried') = Len(queried) + 1 /\ pc' \notin {"raised"}
            /\ Outcome(queried'[Len(queried')]).remove)
        => /\ removed' # removed
           /\ successes' # successes \/ errors' # errors
           /\ pc' \in {"gate", "done"}
    /\ (suspended_msg' # suspended_msg \/ warnings' # warnings)
        => pc = "yield_active" /\ queried' = queried

\* C16: every status query is made after one acquisition of the gate.  The
\* loop suspends at the gate and at each yield of an entry that is still
\* running; the yield of line 181 comes before the suspension warning and
\* the memo update of the entry, which are made when the generator is
\* resumed.  Classification, os.remove and the callbacks of an entry are
\* made without a suspension after its status query.
C16_SuspendsAtGateAndYield ==
    /\ []OneAcquisitionPerQuery
    /\ [](pc = "query" => acquired = poll_idx)
    /\ [][C16_StepsOfAnEntry]_vars

\* the generator is suspended at the yield of the second entry, found
\* suspended by the user, and the memo does not hold the job yet
C16_Witness ==
    /\ pc = "yield_active"
    /\ acquired = 2
    /\ Len(queried) = 2
    /\ queried[2] = "USER_SUSPENDED"
    /\ poll_jobs[2].job \notin suspended_msg

\* a step is a call of cancel_jobs
CancelStep == ~interrupted /\ interrupted'

\* C20: a call of cancel_jobs makes no report_job_success, report_job_error
\* or report_job_submission callback, deletes no jobscript and leaves the
\* suspension memo and the session as they were; the jobscripts of the entries
\* it was given exist when it returns or raises.
C20_CancelOnlyTerminates ==
    [][CancelStep =>
        /\ UNCHANGED <<successes, errors, submissions, files, removed,
                       suspended_msg, warnings, sessions, executors,
                       templates, active_jobs>>
        /\ control_log' # <<>>
        /\ \A k \in 1..Len(cancel_input') : cancel_input'[k].aux \in files'
      ]_vars

\* cancel_jobs was given two entries and both TERMINATE requests were
\* accepted; the jobscripts of both entries exist
C20_Witness ==
    /\ interrupted
    /\ Len(cancel_input) = 2
    /\ \A k \in 1..2 :
          /\ control_log[k].result = "ok"
          /\ cancel_input[k].aux \in files

\* C17: shutdown calls session.exit once, and only when the shutdown of the
\* base class has returned; no status query of a poll that was running when
\* shutdown was called is made after the session has been released.
C17_ExitOnceAfterPolling ==
    /\ [](/\ exits <= 1
          /\ exits = 1 <=> shutdown_pc = "exited"
          /\ late_queries = 0
          /\ shutdown_pc = "exited" => pc = "idle" /\ sessions = 0)
    /\ [][exits' # exits =>
            /\ shutdown_pc = "base"
            /\ BaseShutdownReturned
            /\ exits' = exits + 1]_vars

\* shutdown was called while a poll was running; the poll made its status
\* query, ended, and then the session was released, a job still tracked
C17_Witness ==
    /\ shutdown_pc = "exited"
    /\ exits = 1
    /\ shutdown_joined
    /\ polls >= 1
    /\ active_jobs # <<>>

\* C18: an invocation of check_active_jobs over a finite list ends, given
\* that the gate is granted to a waiting query and the host keeps consuming
\* the generator, and when it ends it has made one status query for each
\* entry of the list, each after its own acquisition of the gate.
C18_PollRunsToCompletion ==
    /\ [](pc = "done" =>
            /\ Len(queried) = Len(poll_jobs)
            /\ acquired = Len(poll_jobs)
            /\ poll_idx = Len(poll_jobs) + 1)
    /\ (PollInFlight ~> pc = "done")

\* an invocation over two entries has ended with two status queries, both
\* entries still running
C18_Witness ==
    /\ pc = "done"
    /\ Len(poll_jobs) = 2
    /\ queried = <<"ExitTimeoutException", "RUNNING">>
    /\ Len(yielded) = 2

\* the host or the running invocation holds an entry of task j
Tracked(j) == \E e \in StillTracked : e.job = j

\* task j has had the one callback that goes with the final state s of its
\* job, and not the other
ReportedAs(j, s) ==
    /\ s = "DONE" => successes[j] = 1 /\ errors[j] = 0
    /\ s = "FAILED" => errors[j] = 1 /\ successes[j] = 0

\* C19: when the middleware answers DONE for good for a job that is tracked,
\* the job gets report_job_success and leaves the tracked entries; when it
\* answers FAILED for good, the job gets report_job_error and leaves them;
\* report_job_success is called in no step but a status query that returned
\* DONE for the job.
C19_TerminalIsEventuallyReported ==
    /\ \A j \in Jobs :
          (remote[j] \in Terminal /\ Tracked(j))
              ~> (ReportedAs(j, remote[j]) /\ ~Tracked(j))
    /\ [][\A j \in Jobs :
            successes'[j] # successes[j] =>
                /\ pc = "query"
                /\ poll_jobs[poll_idx].job = j
                /\ queried' = Append(queried, "DONE")]_vars

\* the job of task 1 ended DONE and was reported as a success, the job of
\* task 2 ended FAILED and was reported as an error; neither is tracked
C19_Witness ==
    /\ remote = <<"DONE", "FAILED">>
    /\ successes = <<1, 0>>
    /\ errors = <<0, 1>>
    /\ ~Tracked(1) /\ ~Tracked(2)
    /\ pc = "idle"

====
